---- MODULE Spec2Model ----
(***************************************************************************)
(* Chunked bump allocator (package arena): the Arena of the cached         *)
(* current-chunk variant, its typed allocation layer and its metrics.      *)
(*                                                                         *)
(* An Arena value is a record                                              *)
(*   chunks       the slice a.chunks: isNil tells the nil slice from an    *)
(*                allocated one, elems are its elements, each a chunk      *)
(*                [buf |-> len(c.buf), offset |-> c.offset,                *)
(*                 nonzero |-> the indexes of c.buf that hold a byte       *)
(*                             other than 0]                               *)
(*   chunkSize    a.chunkSize                                              *)
(*   currentChunk the pointer a.currentChunk: nil, or the 1-based element  *)
(*                idx of the backing array of a.chunks ("chunks"), or an   *)
(*                element of a backing array that append has abandoned     *)
(*                ("abandoned")                                            *)
(*   stale        the element an "abandoned" pointer still sees            *)
(* Machine integers are IntBits wide (int signed, uintptr unsigned).       *)
(*                                                                         *)
(* A SafeArena is the arena a behind the mutex mu (0 when unlocked, else   *)
(* the caller that holds it). callers[c] is goroutine c: where it is in a  *)
(* SafeArena method (at), the calls it has yet to make (left), the method  *)
(* it is in (inv) and the arena as the wrapped call found it (seen). work  *)
(* is the set of calls the goroutines draw from. plain is an Arena that no *)
(* SafeArena wraps, built with the same chunk size and given the same     *)
(* calls, with what its last call returned. batch is a batch of            *)
(* allocations that a caller repeats after every Reset: the requests of   *)
(* the first run (calls), the number of the run (run), how many of the    *)
(* requests the run has made (at), and NumChunks and Capacity as the      *)
(* first run left them.                                                    *)
(***************************************************************************)
EXTENDS Integers, Sequences, FiniteSets, TLC

VARIABLES a, regions, last, mu, callers, work, plain, batch

vars == <<a, regions, last, mu, callers, work, plain, batch>>

(* ------------------------------ bounds -------------------------------- *)

IntBits == 20
MaxChunks == 3
MaxRegions == 2
MaxDirty == 8
NumCallers == 3
MaxCalls == 2
RefCalls == 3
MaxBatch == 2
MaxRuns == 3

(* --------------------------- program constants ------------------------ *)

DefaultChunkSize == 65536
WordSize == 8

(* --------------------------- machine integers ------------------------- *)

Modulus == 2 ^ IntBits

\* conversion to uintptr: the value modulo 2^IntBits
ToUintptr(x) == x % Modulus

\* conversion to int: two's complement reading of the low IntBits bits
ToInt(x) ==
  LET m == x % Modulus
  IN  IF m >= Modulus \div 2 THEN m - Modulus ELSE m

\* uintptr addition
UAdd(x, y) == (ToUintptr(x) + ToUintptr(y)) % Modulus

\* math.MulUintptr overflow flag, as unsafe.Slice evaluates it
MulOverflows(x, y) == ToUintptr(x) * ToUintptr(y) >= Modulus

MaxOf(x, y) == IF x > y THEN x ELSE y

(* ------------------------------- values ------------------------------- *)

NilSlice == [isNil |-> TRUE, elems |-> <<>>]
NilPtr == [to |-> "nil", idx |-> 0]
NoChunk == [buf |-> 0, offset |-> 0, nonzero |-> {}]

IsNilSlice(s) == s.isNil

\* the value an operation leaves: the arena and what the caller gets back
\* (kind: "region", "nil", "ok" or the panic raised)
Ret(arena, kind, chunk, start, len) ==
  [a |-> arena, kind |-> kind, chunk |-> chunk, start |-> start, len |-> len]

PanicKinds == {"UseAfterRelease", "IndexOutOfRange", "UnsafeSliceLen", "NilDeref"}

Panicked(r) == r.kind \in PanicKinds

(* ------------------------- a.currentChunk pointer --------------------- *)

PtrIsLive(arena) ==
  /\ arena.currentChunk.to = "chunks"
  /\ arena.currentChunk.idx \in 1..Len(arena.chunks.elems)

\* *a.currentChunk
Deref(arena) ==
  IF PtrIsLive(arena) THEN arena.chunks.elems[arena.currentChunk.idx]
  ELSE arena.stale

\* *a.currentChunk = c
Store(arena, c) ==
  IF PtrIsLive(arena)
  THEN [arena EXCEPT !.chunks.elems[arena.currentChunk.idx] = c]
  ELSE [arena EXCEPT !.stale = c]

\* a.currentChunk = &a.chunks[i-1]  (i is 1-based)
SetCurrent(arena, i) ==
  [arena EXCEPT !.currentChunk = [to |-> "chunks", idx |-> i],
                !.stale = NoChunk]

\* a.chunks = append(a.chunks, c): appending to a nil slice allocates a
\* backing array; appending to a full one moves the elements to a new
\* array (moved), and a pointer into the old array keeps seeing the old
\* element
AppendChunk(arena, c, moved) ==
  LET old == arena.chunks
      relocated == IsNilSlice(old) \/ moved
      left == relocated /\ PtrIsLive(arena)
  IN  [arena EXCEPT !.chunks = [isNil |-> FALSE, elems |-> Append(old.elems, c)],
                    !.currentChunk = IF left THEN [to |-> "abandoned", idx |-> @.idx]
                                     ELSE @,
                    !.stale = IF left THEN Deref(arena) ELSE @]

(* -------------------------------- Arena ------------------------------- *)

\* alignPtr without the rounding
alignPtrUnrounded(off) == ToUintptr(off)

alignPtr(off) ==
  LET x == UAdd(off, WordSize - 1)
  IN  x - (x % WordSize)

\* grow that sizes every chunk by the configured chunk size alone
growFixedSize(arena, min, moved) ==
  LET size == arena.chunkSize
      a1 == AppendChunk(arena, [buf |-> size, offset |-> 0, nonzero |-> {}], moved)
  IN  SetCurrent(a1, Len(a1.chunks.elems))

\* grow that leaves a.currentChunk to its callers
growKeepsCurrent(arena, min, moved) ==
  LET size == MaxOf(arena.chunkSize, min)
  IN  AppendChunk(arena, [buf |-> size, offset |-> 0, nonzero |-> {}], moved)

grow(arena, min, moved) ==
  LET size == MaxOf(arena.chunkSize, min)
      a1 == AppendChunk(arena, [buf |-> size, offset |-> 0, nonzero |-> {}], moved)
  IN  SetCurrent(a1, Len(a1.chunks.elems))

\* NewArena that allocates the chunk list and leaves the first chunk to
\* the first allocation
NewArenaNoChunk(chunkSize) ==
  LET cs == IF chunkSize <= 0 THEN DefaultChunkSize ELSE chunkSize
  IN  [chunks |-> [isNil |-> FALSE, elems |-> <<>>], chunkSize |-> cs,
       currentChunk |-> NilPtr, stale |-> NoChunk]

\* NewArena that takes the default for a negative chunk size only
NewArenaZeroKept(chunkSize) ==
  LET cs == IF chunkSize < 0 THEN DefaultChunkSize ELSE chunkSize
      a0 == [chunks |-> NilSlice, chunkSize |-> cs,
             currentChunk |-> NilPtr, stale |-> NoChunk]
      a1 == grow(a0, cs, TRUE)
  IN  IF Len(a1.chunks.elems) > 0 THEN SetCurrent(a1, Len(a1.chunks.elems)) ELSE a1

NewArena(chunkSize) ==
  LET cs == IF chunkSize <= 0 THEN DefaultChunkSize ELSE chunkSize
      a0 == [chunks |-> NilSlice, chunkSize |-> cs,
             currentChunk |-> NilPtr, stale |-> NoChunk]
      a1 == grow(a0, cs, TRUE)
  IN  IF Len(a1.chunks.elems) > 0 THEN SetCurrent(a1, Len(a1.chunks.elems)) ELSE a1

\* Carve that leaves c.offset at the aligned offset, not past the region
CarveWithoutAdvance(arena, off, n) ==
  LET c == Deref(arena)
      start == ToInt(off)
      a1 == Store(arena, [c EXCEPT !.offset = ToUintptr(off)])
  IN  IF start < 0 \/ start >= c.buf
      THEN Ret(a1, "IndexOutOfRange", 0, 0, 0)
      ELSE Ret(a1, "region", arena.currentChunk.idx, start, n)

\* carve [off, off+n) from *a.currentChunk: c.offset = off + uintptr(n) and
\* the n bytes at &c.buf[start]; the buffer is the one of chunk idx also when
\* the pointer is into an abandoned array, whose elements share the buffers
Carve(arena, off, n) ==
  LET c == Deref(arena)
      start == ToInt(off)
      a1 == Store(arena, [c EXCEPT !.offset = UAdd(off, ToUintptr(n))])
  IN  IF start < 0 \/ start >= c.buf
      THEN Ret(a1, "IndexOutOfRange", 0, 0, 0)
      ELSE Ret(a1, "region", arena.currentChunk.idx, start, n)

\* allocBytesSlow without the release check
allocBytesSlowUnchecked(arena, n, moved) ==
  LET a1 == grow(arena, n, moved)
      a2 == SetCurrent(a1, Len(a1.chunks.elems))
      off == alignPtr(Deref(a2).offset)
  IN  Carve(a2, off, n)

allocBytesSlow(arena, n, moved) ==
  IF IsNilSlice(arena.chunks)
  THEN Ret(arena, "UseAfterRelease", 0, 0, 0)
  ELSE LET a1 == grow(arena, n, moved)
           a2 == SetCurrent(a1, Len(a1.chunks.elems))
           off == alignPtr(Deref(a2).offset)
       IN  Carve(a2, off, n)

\* AllocBytes that returns early for n < 0 only
AllocBytesZeroPasses(arena, n, moved) ==
  IF n < 0
  THEN Ret(arena, "nil", 0, 0, 0)
  ELSE IF arena.currentChunk # NilPtr
       THEN LET c == Deref(arena)
                off == alignPtr(c.offset)
            IN  IF UAdd(off, ToUintptr(n)) <= ToUintptr(c.buf)
                THEN Carve(arena, off, n)
                ELSE allocBytesSlow(arena, n, moved)
       ELSE allocBytesSlow(arena, n, moved)

\* AllocBytes whose space check leaves the request out
AllocBytesNoFitCheck(arena, n, moved) ==
  IF n <= 0
  THEN Ret(arena, "nil", 0, 0, 0)
  ELSE IF arena.currentChunk # NilPtr
       THEN LET c == Deref(arena)
                off == alignPtr(c.offset)
            IN  IF off <= ToUintptr(c.buf)
                THEN Carve(arena, off, n)
                ELSE allocBytesSlow(arena, n, moved)
       ELSE allocBytesSlow(arena, n, moved)

\* AllocBytes that takes the slow path when the request fits exactly
AllocBytesStrictFit(arena, n, moved) ==
  IF n <= 0
  THEN Ret(arena, "nil", 0, 0, 0)
  ELSE IF arena.currentChunk # NilPtr
       THEN LET c == Deref(arena)
                off == alignPtr(c.offset)
            IN  IF UAdd(off, ToUintptr(n)) < ToUintptr(c.buf)
                THEN Carve(arena, off, n)
                ELSE allocBytesSlow(arena, n, moved)
       ELSE allocBytesSlow(arena, n, moved)

AllocBytes(arena, n, moved) ==
  IF n <= 0
  THEN Ret(arena, "nil", 0, 0, 0)
  ELSE IF arena.currentChunk # NilPtr
       THEN LET c == Deref(arena)
                off == alignPtr(c.offset)
            IN  IF UAdd(off, ToUintptr(n)) <= ToUintptr(c.buf)
                THEN Carve(arena, off, n)
                ELSE allocBytesSlow(arena, n, moved)
       ELSE allocBytesSlow(arena, n, moved)

\* EnsureCapacity without the release check
EnsureCapacityUnchecked(arena, n, moved) ==
  LET ci == Len(arena.chunks.elems) - 1
  IN  IF ci < 0
      THEN Ret(grow(arena, n, moved), "ok", 0, 0, 0)
      ELSE LET c == arena.chunks.elems[ci + 1]
               off == alignPtr(c.offset)
           IN  IF UAdd(ToUintptr(n), off) > ToUintptr(c.buf)
               THEN Ret(grow(arena, n, moved), "ok", 0, 0, 0)
               ELSE Ret(arena, "ok", 0, 0, 0)

EnsureCapacity(arena, n, moved) ==
  IF IsNilSlice(arena.chunks)
  THEN Ret(arena, "UseAfterRelease", 0, 0, 0)
  ELSE LET ci == Len(arena.chunks.elems) - 1
       IN  IF ci < 0
           THEN Ret(grow(arena, n, moved), "ok", 0, 0, 0)
           ELSE LET c == arena.chunks.elems[ci + 1]
                    off == alignPtr(c.offset)
                IN  IF UAdd(ToUintptr(n), off) > ToUintptr(c.buf)
                    THEN Ret(grow(arena, n, moved), "ok", 0, 0, 0)
                    ELSE Ret(arena, "ok", 0, 0, 0)

\* Reset that keeps the first chunk only
ResetDropsChunks(arena) ==
  IF IsNilSlice(arena.chunks)
  THEN Ret(arena, "UseAfterRelease", 0, 0, 0)
  ELSE LET zeroed == [i \in 1..Len(arena.chunks.elems) |->
                        [arena.chunks.elems[i] EXCEPT !.offset = 0]]
           a1 == [arena EXCEPT !.chunks.elems = SubSeq(zeroed, 1, 1)]
       IN  IF Len(a1.chunks.elems) > 0
           THEN Ret(SetCurrent(a1, 1), "ok", 0, 0, 0)
           ELSE Ret(a1, "ok", 0, 0, 0)

\* Reset whose loop starts at the second chunk
ResetSkipsFirst(arena) ==
  IF IsNilSlice(arena.chunks)
  THEN Ret(arena, "UseAfterRelease", 0, 0, 0)
  ELSE LET zeroed == [i \in 1..Len(arena.chunks.elems) |->
                        IF i = 1 THEN arena.chunks.elems[i]
                        ELSE [arena.chunks.elems[i] EXCEPT !.offset = 0]]
           a1 == [arena EXCEPT !.chunks.elems = zeroed]
       IN  IF Len(a1.chunks.elems) > 0
           THEN Ret(SetCurrent(a1, 1), "ok", 0, 0, 0)
           ELSE Ret(a1, "ok", 0, 0, 0)

\* Reset that leaves a.currentChunk where it was
ResetKeepsCurrent(arena) ==
  IF IsNilSlice(arena.chunks)
  THEN Ret(arena, "UseAfterRelease", 0, 0, 0)
  ELSE LET zeroed == [i \in 1..Len(arena.chunks.elems) |->
                        [arena.chunks.elems[i] EXCEPT !.offset = 0]]
       IN  Ret([arena EXCEPT !.chunks.elems = zeroed], "ok", 0, 0, 0)

Reset(arena) ==
  IF IsNilSlice(arena.chunks)
  THEN Ret(arena, "UseAfterRelease", 0, 0, 0)
  ELSE LET zeroed == [i \in 1..Len(arena.chunks.elems) |->
                        [arena.chunks.elems[i] EXCEPT !.offset = 0]]
           a1 == [arena EXCEPT !.chunks.elems = zeroed]
       IN  IF Len(a1.chunks.elems) > 0
           THEN Ret(SetCurrent(a1, 1), "ok", 0, 0, 0)
           ELSE Ret(a1, "ok", 0, 0, 0)

\* Release that checks for an earlier release like the other operations
ReleaseChecked(arena) ==
  IF IsNilSlice(arena.chunks)
  THEN Ret(arena, "UseAfterRelease", 0, 0, 0)
  ELSE Ret([arena EXCEPT !.chunks = NilSlice, !.currentChunk = NilPtr,
                         !.stale = NoChunk],
           "ok", 0, 0, 0)

\* Release that drops the current-chunk pointer and keeps the chunks
ReleaseKeepsChunks(arena) ==
  Ret([arena EXCEPT !.currentChunk = NilPtr, !.stale = NoChunk], "ok", 0, 0, 0)

Release(arena) ==
  Ret([arena EXCEPT !.chunks = NilSlice, !.currentChunk = NilPtr,
                    !.stale = NoChunk],
      "ok", 0, 0, 0)

(* ------------------------------- metrics ------------------------------ *)

RECURSIVE SumOffset(_)
SumOffset(s) == IF s = <<>> THEN 0 ELSE ToInt(Head(s).offset) + SumOffset(Tail(s))

RECURSIVE SumBuf(_)
SumBuf(s) == IF s = <<>> THEN 0 ELSE Head(s).buf + SumBuf(Tail(s))

\* SizeInUse that reads the offset of the current chunk only
SizeInUseCurrent(arena) ==
  IF IsNilSlice(arena.chunks) THEN 0 ELSE ToInt(Deref(arena).offset)

SizeInUse(arena) ==
  IF IsNilSlice(arena.chunks) THEN 0 ELSE SumOffset(arena.chunks.elems)

NumChunks(arena) ==
  IF IsNilSlice(arena.chunks) THEN 0 ELSE Len(arena.chunks.elems)

Capacity(arena) ==
  IF IsNilSlice(arena.chunks) THEN 0 ELSE SumBuf(arena.chunks.elems)

ChunkSize(arena) == arena.chunkSize

RECURSIVE Gcd(_, _)
Gcd(x, y) == IF y = 0 THEN x ELSE Gcd(y, x % y)

\* a float64 quotient, kept as the fraction in lowest terms
Quotient(num, den) == <<num \div Gcd(num, den), den \div Gcd(num, den)>>

\* Utilization that takes the capacity to be NumChunks chunks of chunkSize
UtilizationOfChunkSize(arena) ==
  LET capacity == NumChunks(arena) * ChunkSize(arena)
  IN  IF capacity = 0 THEN Quotient(0, 1)
      ELSE Quotient(SizeInUse(arena), capacity)

Utilization(arena) ==
  LET capacity == Capacity(arena)
  IN  IF capacity = 0 THEN Quotient(0, 1)
      ELSE Quotient(SizeInUse(arena), capacity)

\* the ArenaMetrics of a call that reads SizeInUse in the state first and
\* the other four fields in the state later
MetricsBetween(first, later) ==
  [SizeInUse |-> SizeInUse(first), Capacity |-> Capacity(later),
   NumChunks |-> NumChunks(later), ChunkSize |-> ChunkSize(later),
   Utilization |-> Utilization(later)]

Metrics(arena) == MetricsBetween(arena, arena)

(* ------------------------ typed allocation layer ---------------------- *)

\* &b[0] on the slice AllocBytes returned
FirstByte(r) ==
  IF Panicked(r) THEN r
  ELSE IF r.kind = "nil" THEN Ret(r.a, "IndexOutOfRange", 0, 0, 0)
  ELSE r

\* unsafe.Slice((*T)(ptr), n) for elements of elemSize bytes
UnsafeSlice(r, elemSize, n) ==
  IF r.kind # "region" THEN r
  ELSE IF n < 0 \/ MulOverflows(elemSize, n)
       THEN Ret(r.a, "UnsafeSliceLen", 0, 0, 0)
       ELSE Ret(r.a, "region", r.chunk, r.start, elemSize * n)

\* the bytes [start, start + len) of a buffer
Bytes(start, len) == start .. (start + len - 1)

\* if len(b) > 0 { clear(b) } on the slice AllocBytes returned
Clear(r) ==
  IF r.kind = "region" /\ r.len > 0 /\ r.chunk \in 1..Len(r.a.chunks.elems)
  THEN [r EXCEPT !.a.chunks.elems[r.chunk].nonzero =
                    {i \in @ : i < r.start \/ i >= r.start + r.len}]
  ELSE r

\* Alloc that hands the bytes out as AllocBytes left them
AllocNoClear(arena, size, moved) == FirstByte(AllocBytes(arena, size, moved))

Alloc(arena, size, moved) == FirstByte(Clear(AllocBytes(arena, size, moved)))

AllocUninitialized(arena, size, moved) == FirstByte(AllocBytes(arena, size, moved))

\* AllocSlice that reserves the bytes of one element
AllocSliceOneElem(arena, elemSize, n, moved) ==
  IF n <= 0
  THEN Ret(arena, "nil", 0, 0, 0)
  ELSE LET total == ToInt(elemSize)
       IN  UnsafeSlice(FirstByte(AllocBytes(arena, total, moved)), elemSize, n)

AllocSlice(arena, elemSize, n, moved) ==
  IF n <= 0
  THEN Ret(arena, "nil", 0, 0, 0)
  ELSE LET total == ToInt(elemSize * n)
       IN  UnsafeSlice(FirstByte(AllocBytes(arena, total, moved)), elemSize, n)

\* AllocSliceZeroed that clears the bytes of the first element only
AllocSliceZeroedFirstElem(arena, elemSize, n, moved) ==
  IF n <= 0
  THEN Ret(arena, "nil", 0, 0, 0)
  ELSE LET total == ToInt(elemSize * n)
           b == AllocBytes(arena, total, moved)
           first == IF b.kind = "region" THEN [b EXCEPT !.len = elemSize] ELSE b
           cleared == [b EXCEPT !.a = Clear(first).a]
       IN  UnsafeSlice(FirstByte(cleared), elemSize, n)

AllocSliceZeroed(arena, elemSize, n, moved) ==
  IF n <= 0
  THEN Ret(arena, "nil", 0, 0, 0)
  ELSE LET total == ToInt(elemSize * n)
       IN  UnsafeSlice(FirstByte(Clear(AllocBytes(arena, total, moved))), elemSize, n)

\* PtrAndKeepAlive that loses its argument
PtrAndKeepAliveNil(arena, t) == 0

\* t is a reference, 0 the nil one; runtime.KeepAlive(a) has no effect on a
PtrAndKeepAlive(arena, t) == t

(* ------------------------------ SafeArena ---------------------------- *)

\* the zero value of sync.Mutex
Unlocked == 0

Callers == 1..NumCallers

\* s.mu.Lock() that does not wait for the mutex
LockReturnsAtOnce(m) == TRUE

\* whether s.mu.Lock() returns: it blocks while the mutex is locked
LockReturns(m) == m = Unlocked

\* an Unlock written after the wrapped call: a panic of the call skips it
UnwindSkipsUnlock(kind) == IF kind \in PanicKinds THEN "idle" ELSE "deferred"

\* where a method goes when the wrapped call returns or panics: to its
\* deferred s.mu.Unlock() either way
Unwind(kind) == "deferred"

\* a method that deadlocks on itself: SafeAllocZeroed taking the mutex before
\* it calls SafeAlloc
RelocksInAllocZeroed(inv) == inv[1] = "AllocZeroed"

\* whether the method calls s.mu.Lock() again while it holds the mutex
Relocks(inv) == FALSE

NoInv == <<"", 0, 0>>

\* a call that returns no value; a value is a record named after its type
NoVal == [none |-> TRUE]

ReadOnly ==
  {"SizeInUse", "NumChunks", "Capacity", "Utilization", "ChunkSize", "Metrics",
   "PtrAndKeepAlive"}

\* what a metrics accessor or PtrAndKeepAlive returns when the call starts
\* in the state first and ends in the state later
Value(first, later, inv) ==
  CASE inv[1] = "SizeInUse" -> [int |-> SizeInUse(later)]
    [] inv[1] = "NumChunks" -> [int |-> NumChunks(later)]
    [] inv[1] = "Capacity" -> [int |-> Capacity(later)]
    [] inv[1] = "Utilization" -> [float64 |-> Utilization(later)]
    [] inv[1] = "ChunkSize" -> [int |-> ChunkSize(later)]
    [] inv[1] = "Metrics" -> MetricsBetween(first, later)
    [] inv[1] = "PtrAndKeepAlive" -> [ref |-> PtrAndKeepAlive(later, inv[2])]
    [] OTHER -> NoVal

\* the call inv = <<function, n, element size>> made on an Arena directly
Direct(arena, inv, moved) ==
  CASE inv[1] = "AllocBytes" -> AllocBytes(arena, inv[2], moved)
    [] inv[1] = "EnsureCapacity" -> EnsureCapacity(arena, inv[2], moved)
    [] inv[1] = "Reset" -> Reset(arena)
    [] inv[1] = "Release" -> Release(arena)
    [] inv[1] = "Alloc" -> Alloc(arena, inv[3], moved)
    [] inv[1] = "AllocZeroed" -> Alloc(arena, inv[3], moved)
    [] inv[1] = "AllocUninitialized" -> AllocUninitialized(arena, inv[3], moved)
    [] inv[1] = "AllocSlice" -> AllocSlice(arena, inv[3], inv[2], moved)
    [] inv[1] = "AllocSliceZeroed" -> AllocSliceZeroed(arena, inv[3], inv[2], moved)
    [] OTHER -> Ret(arena, "ok", 0, 0, 0)

\* an unwrapped Arena and what the last call on it returned
Plain(arena, r, val) ==
  [a |-> r.a, kind |-> r.kind, chunk |-> r.chunk, start |-> r.start,
   len |-> r.len, val |-> val, kept |-> r.a = arena]

NoArena ==
  [chunks |-> NilSlice, chunkSize |-> 0, currentChunk |-> NilPtr, stale |-> NoChunk]

\* a goroutine outside every method
Idle(left) == [at |-> "idle", left |-> left, inv |-> NoInv, seen |-> NoArena]

\* the wrapped call of the method inv = <<method, n, element size>>
Invoke(arena, inv, moved) ==
  CASE inv[1] = "AllocBytes" -> AllocBytes(arena, inv[2], moved)
    [] inv[1] = "EnsureCapacity" -> EnsureCapacity(arena, inv[2], moved)
    [] inv[1] = "Reset" -> Reset(arena)
    [] inv[1] = "Release" -> Release(arena)
    [] inv[1] = "Alloc" -> Alloc(arena, inv[3], moved)
    [] inv[1] = "AllocZeroed" -> Alloc(arena, inv[3], moved)
    [] inv[1] = "AllocUninitialized" -> AllocUninitialized(arena, inv[3], moved)
    [] inv[1] = "AllocSlice" -> AllocSlice(arena, inv[3], inv[2], moved)
    [] inv[1] = "AllocSliceZeroed" -> AllocSliceZeroed(arena, inv[3], inv[2], moved)
    [] OTHER -> Ret(arena, "ok", 0, 0, 0)

(* ------------------------------- inputs ------------------------------- *)

\* an element type so large that a few elements overflow the machine integer
BigElem == 2 ^ (IntBits - 4)

ChunkSizeArgs == {-1, 0, 16}
AllocSizes == {-1, 0, 4, 24}
EnsureSizes == {-1, 0, 24}
ElemSizes == {0, 4}
\* <<element size, element count>>: no element, a zero-size element, a plain
\* slice, and a byte count that overflows the machine integer
SliceArgs == {<<4, -1>>, <<0, 2>>, <<4, 2>>, <<BigElem, 17>>}

\* the request sizes of a batch
BatchSizes == {4, 16, 24}

\* chunk sizes that a request of AllocSizes fills to the last byte
FitChunkSizes == {16, 24}

\* the request size of the goroutines that only allocate
StressSizes == {4, 8, 24}
\* the SafeArena methods, as <<method, n, element size>>
SafeMethods ==
  {<<"AllocBytes", 24, 0>>, <<"EnsureCapacity", 24, 0>>, <<"Reset", 0, 0>>,
   <<"Release", 0, 0>>, <<"Alloc", 1, 4>>, <<"AllocUninitialized", 1, 4>>,
   <<"AllocSlice", 2, 4>>, <<"AllocSliceZeroed", 2, 4>>,
   <<"SizeInUse", 0, 0>>, <<"NumChunks", 0, 0>>, <<"Capacity", 0, 0>>,
   <<"Utilization", 0, 0>>, <<"ChunkSize", 0, 0>>, <<"Metrics", 0, 0>>,
   <<"PtrAndKeepAlive", 1, 0>>, <<"AllocZeroed", 1, 4>>}

\* the calls of the goroutines that are to finish
FairMethods ==
  {<<"AllocBytes", 24, 0>>, <<"AllocZeroed", 1, 4>>, <<"EnsureCapacity", 24, 0>>,
   <<"Reset", 0, 0>>, <<"Release", 0, 0>>, <<"Metrics", 0, 0>>}

\* the calls of the single caller: the methods, and calls that fail or
\* return the absent result
RefMethods ==
  SafeMethods \cup
  {<<"AllocBytes", -1, 0>>, <<"Alloc", 1, 0>>, <<"AllocSlice", 17, BigElem>>}

(* ----------------------------- the program ---------------------------- *)

\* no batch is running
NoBatch == [calls |-> <<>>, run |-> 0, at |-> 0, chunks |-> 0, capacity |-> 0]

\* what the last call was, what it returned and whether it left the arena
\* as it found it
Called(op, n, elem, was, r) ==
  [op |-> op, n |-> n, elem |-> elem, was |-> was, kind |-> r.kind,
   chunk |-> r.chunk, start |-> r.start, len |-> r.len, kept |-> r.a = a,
   val |-> NoVal]

\* whether the arena a call finds has been released
Was == IF IsNilSlice(a.chunks) THEN "released" ELSE "live"

\* growth and the number of outstanding regions stay within the bounds
Within(r) ==
  /\ Len(r.a.chunks.elems) <= MaxChunks
  /\ r.kind = "region" => Len(regions) < MaxRegions

\* append relocates the backing array or extends it in place; a call that
\* appends nothing has the one outcome
Appended(r, moved) == moved => Len(r.a.chunks.elems) > Len(a.chunks.elems)

\* the regions handed out since the last Reset, in the order of the calls
Handed(r) ==
  IF r.kind = "region"
  THEN Append(regions, [chunk |-> r.chunk, start |-> r.start, len |-> r.len])
  ELSE regions

Init ==
  \E chunkSize \in ChunkSizeArgs :
    /\ a = NewArena(chunkSize)
    /\ regions = <<>>
    /\ last = Called("NewArena", chunkSize, 0, "new", Ret(a, "ok", 0, 0, 0))
    /\ mu = Unlocked
    /\ callers = [c \in Callers |-> Idle(0)]
    /\ work = {}
    /\ plain = Plain(NoArena, Ret(NoArena, "ok", 0, 0, 0), NoVal)
    /\ batch = NoBatch

CallAllocBytes ==
  \E n \in AllocSizes, moved \in BOOLEAN :
    \E r \in {AllocBytes(a, n, moved)} :
        /\ Within(r)
        /\ Appended(r, moved)
        /\ a' = r.a
        /\ regions' = Handed(r)
        /\ last' = Called("AllocBytes", n, 0, Was, r)
        /\ UNCHANGED <<mu, callers, work, plain, batch>>

CallEnsureCapacity ==
  \E n \in EnsureSizes, moved \in BOOLEAN :
    \E r \in {EnsureCapacity(a, n, moved)} :
        /\ Within(r)
        /\ Appended(r, moved)
        /\ a' = r.a
        /\ regions' = regions
        /\ last' = Called("EnsureCapacity", n, 0, Was, r)
        /\ UNCHANGED <<mu, callers, work, plain, batch>>

CallReset ==
  \E r \in {Reset(a)} :
      /\ a' = r.a
      /\ regions' = IF r.kind = "ok" THEN <<>> ELSE regions
      /\ last' = Called("Reset", 0, 0, Was, r)
      /\ UNCHANGED <<mu, callers, work, plain, batch>>

CallRelease ==
  \E r \in {Release(a)} :
      /\ a' = r.a
      /\ regions' = <<>>
      /\ last' = Called("Release", 0, 0, Was, r)
      /\ UNCHANGED <<mu, callers, work, plain, batch>>

CallAlloc ==
  \E size \in ElemSizes, moved \in BOOLEAN :
    \E r \in {Alloc(a, size, moved)} :
        /\ Within(r)
        /\ Appended(r, moved)
        /\ a' = r.a
        /\ regions' = Handed(r)
        /\ last' = Called("Alloc", 1, size, Was, r)
        /\ UNCHANGED <<mu, callers, work, plain, batch>>

CallAllocUninitialized ==
  \E size \in ElemSizes, moved \in BOOLEAN :
    \E r \in {AllocUninitialized(a, size, moved)} :
        /\ Within(r)
        /\ Appended(r, moved)
        /\ a' = r.a
        /\ regions' = Handed(r)
        /\ last' = Called("AllocUninitialized", 1, size, Was, r)
        /\ UNCHANGED <<mu, callers, work, plain, batch>>

CallAllocSlice ==
  \E arg \in SliceArgs, moved \in BOOLEAN :
    \E r \in {AllocSlice(a, arg[1], arg[2], moved)} :
        /\ Within(r)
        /\ Appended(r, moved)
        /\ a' = r.a
        /\ regions' = Handed(r)
        /\ last' = Called("AllocSlice", arg[2], arg[1], Was, r)
        /\ UNCHANGED <<mu, callers, work, plain, batch>>

CallAllocSliceZeroed ==
  \E arg \in SliceArgs, moved \in BOOLEAN :
    \E r \in {AllocSliceZeroed(a, arg[1], arg[2], moved)} :
        /\ Within(r)
        /\ Appended(r, moved)
        /\ a' = r.a
        /\ regions' = Handed(r)
        /\ last' = Called("AllocSliceZeroed", arg[2], arg[1], Was, r)
        /\ UNCHANGED <<mu, callers, work, plain, batch>>

\* the number of bytes other than 0 in the chunks
RECURSIVE SumNonzero(_)
SumNonzero(s) ==
  IF s = <<>> THEN 0 ELSE Cardinality(Head(s).nonzero) + SumNonzero(Tail(s))

\* the holder of a region stores a value other than 0 in each of its bytes
CallWrite ==
  \E i \in 1..Len(regions) :
    LET g == regions[i]
        a1 == [a EXCEPT !.chunks.elems[g.chunk].nonzero = @ \cup Bytes(g.start, g.len)]
    IN  /\ ~IsNilSlice(a.chunks)
        /\ SumNonzero(a1.chunks.elems) <= MaxDirty
        /\ a' = a1
        /\ regions' = regions
        /\ last' = Called("Write", i, 0, Was, Ret(a1, "ok", g.chunk, g.start, g.len))
        /\ UNCHANGED <<mu, callers, work, plain, batch>>

Next ==
  \/ CallAllocBytes
  \/ CallEnsureCapacity
  \/ CallReset
  \/ CallRelease
  \/ CallAlloc
  \/ CallAllocUninitialized
  \/ CallAllocSlice
  \/ CallAllocSliceZeroed

Spec == Init /\ [][Next]_vars

\* the program with callers that write to the regions they hold
MemNext ==
  \/ CallWrite
  \/ CallReset
  \/ CallAlloc
  \/ CallAllocSlice
  \/ CallAllocSliceZeroed

MemSpec == Init /\ [][MemNext]_vars

\* the program of the Arena methods alone, on chunks that a request can
\* fill exactly
FitInit ==
  \E chunkSize \in FitChunkSizes :
    /\ a = NewArena(chunkSize)
    /\ regions = <<>>
    /\ last = Called("NewArena", chunkSize, 0, "new", Ret(a, "ok", 0, 0, 0))
    /\ mu = Unlocked
    /\ callers = [c \in Callers |-> Idle(0)]
    /\ work = {}
    /\ plain = Plain(NoArena, Ret(NoArena, "ok", 0, 0, 0), NoVal)
    /\ batch = NoBatch

FitNext ==
  \/ CallAllocBytes
  \/ CallEnsureCapacity
  \/ CallReset
  \/ CallRelease

FitSpec == FitInit /\ [][FitNext]_vars

(* ---------------------- the program, batch and Reset ----------------- *)

\* a fresh arena and a caller about to run a batch for the first time
BatchInit ==
  \E chunkSize \in ChunkSizeArgs :
    /\ a = NewArena(chunkSize)
    /\ regions = <<>>
    /\ last = Called("NewArena", chunkSize, 0, "new", Ret(a, "ok", 0, 0, 0))
    /\ mu = Unlocked
    /\ callers = [c \in Callers |-> Idle(0)]
    /\ work = {}
    /\ plain = Plain(NoArena, Ret(NoArena, "ok", 0, 0, 0), NoVal)
    /\ batch = [NoBatch EXCEPT !.run = 1]

\* the first run makes one more request
BatchAllocBytes ==
  \E n \in BatchSizes, moved \in BOOLEAN :
    \E r \in {AllocBytes(a, n, moved)} :
        /\ batch.run = 1
        /\ Len(batch.calls) < MaxBatch
        /\ Appended(r, moved)
        /\ a' = r.a
        /\ regions' = Handed(r)
        /\ last' = Called("AllocBytes", n, 0, Was, r)
        /\ batch' = [batch EXCEPT !.calls = Append(@, n), !.at = @ + 1,
                                   !.chunks = NumChunks(r.a),
                                   !.capacity = Capacity(r.a)]
        /\ UNCHANGED <<mu, callers, work, plain>>

\* the run is over: Reset, and the batch starts again
BatchReset ==
  \E r \in {Reset(a)} :
      /\ batch.calls # <<>>
      /\ batch.at = Len(batch.calls)
      /\ batch.run < MaxRuns
      /\ a' = r.a
      /\ regions' = IF r.kind = "ok" THEN <<>> ELSE regions
      /\ last' = Called("Reset", 0, 0, Was, r)
      /\ batch' = [batch EXCEPT !.run = @ + 1, !.at = 0]
      /\ UNCHANGED <<mu, callers, work, plain>>

\* a later run makes the next request of the batch
BatchReplay ==
  \E moved \in BOOLEAN :
    /\ batch.run > 1
    /\ batch.at < Len(batch.calls)
    /\ \E r \in {AllocBytes(a, batch.calls[batch.at + 1], moved)} :
         /\ Appended(r, moved)
         /\ a' = r.a
         /\ regions' = Handed(r)
         /\ last' = Called("AllocBytes", batch.calls[batch.at + 1], 0, Was, r)
         /\ batch' = [batch EXCEPT !.at = @ + 1]
         /\ UNCHANGED <<mu, callers, work, plain>>

BatchNext ==
  \/ BatchAllocBytes
  \/ BatchReset
  \/ BatchReplay

BatchSpec == BatchInit /\ [][BatchNext]_vars

(* ------------------------- the program, SafeArena --------------------- *)

\* NewSafeArena that passes no chunk size on to NewArena
NewSafeArenaDefaultSize(w, left) ==
  \E chunkSize \in ChunkSizeArgs :
    /\ a = NewArena(0)
    /\ regions = <<>>
    /\ last = Called("NewArena", chunkSize, 0, "new", Ret(a, "ok", 0, 0, 0))
    /\ mu = Unlocked
    /\ callers = [c \in Callers |-> Idle(left)]
    /\ work = w
    /\ plain = Plain(NoArena, Ret(NewArena(chunkSize), "ok", 0, 0, 0), NoVal)
    /\ batch = NoBatch

\* NewSafeArena(chunkSize) and goroutines that each make calls drawn from w,
\* each goroutine as many as left
NewSafeArena(w, left) ==
  \E chunkSize \in ChunkSizeArgs :
    /\ a = NewArena(chunkSize)
    /\ regions = <<>>
    /\ last = Called("NewArena", chunkSize, 0, "new", Ret(a, "ok", 0, 0, 0))
    /\ mu = Unlocked
    /\ callers = [c \in Callers |-> Idle(left)]
    /\ work = w
    /\ plain = Plain(NoArena, Ret(NewArena(chunkSize), "ok", 0, 0, 0), NoVal)
    /\ batch = NoBatch

\* goroutine c calls a method: s.mu.Lock() returns, and the wrapped call
\* starts on the arena as it is
SafeEnter(c) ==
  \E inv \in work :
    /\ callers[c].at = "idle"
    /\ callers[c].left > 0
    /\ LockReturns(mu)
    /\ mu' = c
    /\ callers' = [callers EXCEPT ![c] = [at |-> "locked", left |-> @.left - 1,
                                           inv |-> inv, seen |-> a]]
    /\ UNCHANGED <<a, regions, last, work, plain, batch>>

\* the wrapped call of goroutine c returns or panics; the unwrapped Arena
\* is given the same call
SafeCall(c) ==
  /\ callers[c].at = "locked"
  /\ \E moved \in BOOLEAN, pmoved \in BOOLEAN :
       \E r \in {Invoke(callers[c].seen, callers[c].inv, moved)},
          p \in {Direct(plain.a, callers[c].inv, pmoved)} :
         LET inv == callers[c].inv
         IN  /\ Relocks(inv) => LockReturns(mu)
             /\ moved => Len(r.a.chunks.elems) > Len(callers[c].seen.chunks.elems)
             /\ pmoved => Len(p.a.chunks.elems) > Len(plain.a.chunks.elems)
             /\ a' = r.a
             /\ regions' = IF inv[1] \in {"Reset", "Release"} /\ r.kind = "ok"
                            THEN <<>> ELSE Handed(r)
             /\ last' = [Called(inv[1], inv[2], inv[3], Was, r) EXCEPT
                           !.val = Value(callers[c].seen, a, inv)]
             /\ plain' = Plain(plain.a, p, Value(plain.a, plain.a, inv))
             /\ callers' = [callers EXCEPT ![c] =
                              [Idle(@.left) EXCEPT !.at = Unwind(r.kind)]]
             /\ UNCHANGED <<mu, work, batch>>

\* the deferred s.mu.Unlock() of goroutine c
SafeExit(c) ==
  /\ callers[c].at = "deferred"
  /\ mu' = Unlocked
  /\ callers' = [callers EXCEPT ![c] = Idle(@.left)]
  /\ UNCHANGED <<a, regions, last, work, plain, batch>>

SafeNext ==
  \/ \E c \in Callers : SafeEnter(c)
  \/ \E c \in Callers : SafeCall(c)
  \/ \E c \in Callers : SafeExit(c)

\* goroutines that each call one method, any of them, on one SafeArena
SafeInit == NewSafeArena(SafeMethods, 1)

SafeSpec == SafeInit /\ [][SafeNext]_vars

\* goroutines that each call AllocBytes(size) MaxCalls times on one SafeArena
StressInit ==
  \E size \in StressSizes : NewSafeArena({<<"AllocBytes", size, 0>>}, MaxCalls)

StressSpec == StressInit /\ [][SafeNext]_vars

\* goroutines that each allocate, reset, reserve, read the metrics or
\* release, once
FairInit == NewSafeArena(FairMethods, 1)

\* the scheduler runs every goroutine that stays able to take a step: one
\* that holds the mutex, and one that waits for a mutex that stays free
FairSafeSpec ==
  /\ FairInit
  /\ [][SafeNext]_vars
  /\ \A c \in Callers : WF_vars(SafeEnter(c) \/ SafeCall(c) \/ SafeExit(c))

\* one caller makes RefCalls calls, any of them, on one SafeArena
RefInit == NewSafeArena(RefMethods, RefCalls)

RefNext ==
  \/ SafeEnter(1)
  \/ SafeCall(1)
  \/ SafeExit(1)

RefSpec == RefInit /\ [][RefNext]_vars

(* ------------------------------ properties ---------------------------- *)

Live == ~IsNilSlice(a.chunks)

Elems == a.chunks.elems

\* the last call handed out the region it reports, inside chunk last.chunk
LastRegion == [chunk |-> last.chunk, start |-> last.start, len |-> last.len]

AllocOps == {"AllocBytes", "Alloc", "AllocUninitialized", "AllocSlice", "AllocSliceZeroed"}

\* C1: on a live arena two regions handed out by allocation calls with no
\* Reset or Release between them are disjoint: each lies in an existing chunk,
\* two of the same chunk are in call order (the later starts at or after the
\* end of the earlier), and two of different chunks are in different buffers.
C1_RegionsDisjoint ==
  Live =>
    /\ \A i \in 1..Len(regions) : regions[i].chunk \in 1..Len(Elems)
    /\ \A i, j \in 1..Len(regions) :
         (i < j /\ regions[i].chunk = regions[j].chunk)
           => regions[j].start >= regions[i].start + regions[i].len

\* two regions of one chunk, the later one after padding
C1_Witness ==
  /\ Live
  /\ Len(regions) = 2
  /\ regions[1].chunk = regions[2].chunk
  /\ regions[2].start > regions[1].start + regions[1].len
  /\ last.op \in AllocOps /\ last.kind = "region"

\* C2: AllocBytes(n) with n > 0 on a live arena returns a region of exactly n
\* bytes that starts at a multiple of the word size inside one chunk and ends
\* within that chunk's buffer.
C2_AllocBytesRegion ==
  (last.op = "AllocBytes" /\ last.n > 0 /\ last.was = "live") =>
    /\ last.kind = "region"
    /\ last.len = last.n
    /\ last.start % WordSize = 0
    /\ last.chunk \in 1..Len(Elems)
    /\ last.start + last.n <= Elems[last.chunk].buf

\* a region carved behind an unaligned offset
C2_Witness ==
  /\ last.op = "AllocBytes" /\ last.n > 0 /\ last.was = "live"
  /\ last.kind = "region"
  /\ last.start > 0
  /\ Len(regions) = 2 /\ regions[1].chunk = last.chunk
  /\ (regions[1].start + regions[1].len) % WordSize # 0

\* C3: AllocBytes(n) with n <= 0 on a live arena returns nil and changes
\* nothing: the chunk list, every offset, the current chunk, SizeInUse,
\* NumChunks and Capacity are what they were.
C3_AllocBytesNonPositive ==
  [][(last'.op = "AllocBytes" /\ last'.n <= 0 /\ last'.was = "live") =>
        /\ last'.kind = "nil"
        /\ a' = a
        /\ regions' = regions
        /\ SizeInUse(a') = SizeInUse(a)
        /\ NumChunks(a') = NumChunks(a)
        /\ Capacity(a') = Capacity(a)]_vars

\* AllocBytes(n <= 0) called on an arena with an unaligned offset in use
C3_Witness ==
  /\ last.op = "AllocBytes" /\ last.n <= 0 /\ last.was = "live"
  /\ last.kind = "nil"
  /\ SizeInUse(a) % WordSize # 0

\* the calls of C4: allocations with a positive count, Reset, EnsureCapacity
C4_Call ==
  \/ last.op = "AllocBytes" /\ last.n > 0
  \/ last.op = "Alloc"
  \/ last.op = "AllocSlice" /\ last.n > 0
  \/ last.op = "Reset"
  \/ last.op = "EnsureCapacity"

\* the calls of C4 that ask AllocBytes for a positive number of bytes or
\* check for the release themselves
C4_ChecksRelease ==
  \/ last.op = "AllocBytes" /\ last.n > 0
  \/ last.op = "Alloc" /\ last.elem > 0
  \/ last.op = "AllocSlice" /\ last.n > 0 /\ ToInt(last.elem * last.n) > 0
  \/ last.op = "Reset"
  \/ last.op = "EnsureCapacity"

C5_ReleaseIdempotent ==
  /\ Release(a).kind = "ok"
  /\ Release(Release(a).a) = Release(a)
  /\ last.op = "Release" => (last.kind = "ok" /\ Release(a).a = a)

\* a Release of an arena that was released before
C5_Witness ==
  /\ last.op = "Release" /\ last.was = "released"
  /\ last.kind = "ok"

\* C6: right after Release of a live arena SizeInUse, NumChunks, Capacity
\* and Utilization are all 0.
C6_MetricsAfterRelease ==
  (last.op = "Release" /\ last.was = "live") =>
    /\ SizeInUse(a) = 0
    /\ NumChunks(a) = 0
    /\ Capacity(a) = 0
    /\ Utilization(a) = Quotient(0, 1)

\* Release has acted on a live arena
C6_Witness ==
  /\ last.op = "Release" /\ last.was = "live"
  /\ last.kind = "ok"
  /\ IsNilSlice(a.chunks)

\* C7: released is terminal: no step from a released arena makes the chunk
\* sequence non-empty or hands out a region, whether the call fails or not.
C7_ReleasedTerminal ==
  [][IsNilSlice(a.chunks) =>
        /\ IsNilSlice(a'.chunks)
        /\ NumChunks(a') = 0
        /\ a'.currentChunk = NilPtr
        /\ last'.kind # "region"
        /\ regions' = <<>>]_vars

\* an allocation that asked for bytes has failed on a released arena
C7_Witness ==
  /\ last.was = "released"
  /\ last.op \in AllocOps /\ last.kind = "UseAfterRelease"
  /\ NumChunks(a) = 0

\* C8: Reset on a live arena zeroes every chunk's offset and keeps the number
\* of chunks, the capacity and each chunk's buffer length.
C8_ResetFrame ==
  [][(last'.op = "Reset" /\ last'.was = "live") =>
        /\ last'.kind = "ok"
        /\ SizeInUse(a') = 0
        /\ \A i \in 1..Len(a'.chunks.elems) : a'.chunks.elems[i].offset = 0
        /\ NumChunks(a') = NumChunks(a)
        /\ Capacity(a') = Capacity(a)
        /\ Len(a'.chunks.elems) = Len(a.chunks.elems)
        /\ \A i \in 1..Len(a.chunks.elems) :
             a'.chunks.elems[i].buf = a.chunks.elems[i].buf]_vars

\* Reset has acted on an arena of several chunks of different lengths
C8_Witness ==
  /\ last.op = "Reset" /\ last.was = "live" /\ last.kind = "ok"
  /\ NumChunks(a) >= 2
  /\ Elems[1].buf # Elems[2].buf

C10_OffsetWithinBuffer ==
  Live => \A i \in 1..Len(Elems) :
            /\ 0 <= Elems[i].offset
            /\ Elems[i].offset <= Elems[i].buf

\* a chunk filled to its last byte beside a chunk partly used
C10_Witness ==
  /\ Live
  /\ \E i, j \in 1..Len(Elems) :
       /\ Elems[i].offset = Elems[i].buf
       /\ Elems[j].offset > 0 /\ Elems[j].offset < Elems[j].buf

\* C11: between construction and Release the chunk sequence is never empty
\* (NumChunks >= 1) and the current chunk is defined: a.currentChunk points
\* at an element of a.chunks.
C11_ChunksNonEmpty ==
  Live =>
    /\ NumChunks(a) >= 1
    /\ PtrIsLive(a)
    /\ Deref(a) = Elems[a.currentChunk.idx]

\* a grown arena whose current chunk is the first one again
C11_Witness ==
  /\ Live
  /\ NumChunks(a) = MaxChunks
  /\ a.currentChunk.idx = 1
  /\ Elems[1].offset > 0

\* C12: an AllocBytes(n) that grows a live arena appends exactly one chunk,
\* of buffer length max(chunkSize, n), leaves the earlier chunks as they
\* were, makes the new chunk current and returns its bytes [0, n).
C12_GrowOneChunk ==
  [][(last'.op = "AllocBytes" /\ last'.was = "live"
        /\ NumChunks(a') # NumChunks(a)) =>
        LET k == Len(a.chunks.elems)
        IN  /\ Len(a'.chunks.elems) = k + 1
            /\ SubSeq(a'.chunks.elems, 1, k) = a.chunks.elems
            /\ a'.chunks.elems[k + 1].buf = MaxOf(ChunkSize(a), last'.n)
            /\ a'.chunks.elems[k + 1].buf >= last'.n
            /\ a'.chunks.elems[k + 1].offset = last'.n
            /\ a'.currentChunk = [to |-> "chunks", idx |-> k + 1]
            /\ last'.kind = "region"
            /\ last'.chunk = k + 1
            /\ last'.start = 0
            /\ last'.len = last'.n]_vars

\* a request larger than the chunk size has got a chunk of its own size
C12_Witness ==
  /\ last.op = "AllocBytes" /\ last.was = "live" /\ last.kind = "region"
  /\ last.n > ChunkSize(a)
  /\ last.chunk = NumChunks(a) /\ NumChunks(a) >= 2
  /\ Elems[last.chunk].buf = last.n
  /\ Elems[1].buf = ChunkSize(a)

\* C13: NewArena(chunkSize) gives ChunkSize() = 65536 when chunkSize <= 0 and
\* ChunkSize() = chunkSize otherwise, with one chunk of that size and offset
\* 0; no operation changes ChunkSize() afterwards.
C13_ChunkSize ==
  /\ [](last.op = "NewArena" =>
          /\ ChunkSize(a) = IF last.n <= 0 THEN 65536 ELSE last.n
          /\ NumChunks(a) = 1
          /\ SizeInUse(a) = 0
          /\ Capacity(a) = ChunkSize(a)
          /\ Elems[1] = [buf |-> ChunkSize(a), offset |-> 0, nonzero |-> {}])
  /\ [][ChunkSize(a') = ChunkSize(a)]_vars

\* an arena built with the default chunk size has grown a second chunk
C13_Witness ==
  /\ ChunkSize(a) = DefaultChunkSize
  /\ NumChunks(a) = 2
  /\ Capacity(a) = 2 * DefaultChunkSize
  /\ last.op # "NewArena"

\* whether n elements of elemSize bytes are a byte count the machine integer
\* holds
C15_Fits == last.elem > 0 /\ last.elem * last.n < Modulus \div 2

LastNonzero == Elems[last.chunk].nonzero \cap Bytes(last.start, last.len)

Layout(arena) ==
  [chunks |-> [isNil |-> arena.chunks.isNil,
               elems |-> [i \in 1..Len(arena.chunks.elems) |->
                            [buf |-> arena.chunks.elems[i].buf,
                             offset |-> arena.chunks.elems[i].offset]]],
   chunkSize |-> arena.chunkSize,
   currentChunk |-> arena.currentChunk]

Inside(c) == callers[c].at \in {"locked", "deferred"}

\* every goroutine has made all its calls
Done == \A c \in Callers : callers[c].at = "idle" /\ callers[c].left = 0

\* the calls goroutines 1..c have started
RECURSIVE Started(_)
Started(c) ==
  IF c = 0 THEN 0 ELSE (MaxCalls - callers[c].left) + Started(c - 1)

\* the size every goroutine of StressSpec asks for
StressSize == (CHOOSE inv \in work : TRUE)[2]

\* C17: with NumCallers goroutines each calling AllocBytes(size) MaxCalls
\* times on one SafeArena, every call that has returned succeeded with a
\* region of size bytes inside a chunk, no two returned regions overlap, and
\* once all goroutines are done exactly NumCallers * MaxCalls regions have
\* been returned.
C17_StressRegions ==
  /\ \A i \in 1..Len(regions) :
       /\ regions[i].len = StressSize
       /\ regions[i].chunk \in 1..Len(Elems)
       /\ regions[i].start + regions[i].len <= Elems[regions[i].chunk].buf
  /\ \A i, j \in 1..Len(regions) :
       (i < j /\ regions[i].chunk = regions[j].chunk) =>
          \/ regions[i].start + regions[i].len <= regions[j].start
          \/ regions[j].start + regions[j].len <= regions[i].start
  /\ last.op = "AllocBytes" => last.kind = "region"
  /\ Len(regions) =
       Started(NumCallers) - Cardinality({c \in Callers : callers[c].at = "locked"})
  /\ Done => Len(regions) = NumCallers * MaxCalls

\* all goroutines are done and their regions lie in several chunks
C17_Witness ==
  /\ Done
  /\ Len(regions) = NumCallers * MaxCalls
  /\ \E i, j \in 1..Len(regions) : regions[i].chunk # regions[j].chunk
  /\ \E i, j \in 1..Len(regions) : i # j /\ regions[i].chunk = regions[j].chunk

\* C18 as stated: the final SizeInUse is NumCallers * MaxCalls times the size
\* rounded up to the word size.
C18_Original ==
  Done => SizeInUse(a) = NumCallers * MaxCalls * alignPtr(StressSize)

\* the chunks that hold an allocation
UsedChunks == {i \in 1..Len(Elems) : Elems[i].offset > 0}

\* C18 (amended): the final SizeInUse is the sum of the chunk offsets:
\* NumCallers * MaxCalls times the size rounded up to the word size, less the
\* padding (rounded size - size) once for every chunk that holds an
\* allocation; it lies between the sum of the sizes and the sum of the
\* rounded sizes.
C18_FinalSizeInUse ==
  Done =>
    LET calls == NumCallers * MaxCalls
        rounded == alignPtr(StressSize)
    IN  /\ SizeInUse(a) =
             calls * rounded - Cardinality(UsedChunks) * (rounded - StressSize)
        /\ SizeInUse(a) >= calls * StressSize
        /\ SizeInUse(a) <= calls * rounded

\* all goroutines are done with a size that is no multiple of the word size,
\* their regions in several chunks
C18_Witness ==
  /\ Done
  /\ StressSize % WordSize # 0
  /\ Cardinality(UsedChunks) >= 2
  /\ SizeInUse(a) < NumCallers * MaxCalls * alignPtr(StressSize)

\* C19: at most one goroutine at a time is inside a SafeArena method (between
\* Lock and Unlock, where the wrapped Arena's code runs): the one that holds
\* the mutex, and the arena is as its wrapped call found it until that call
\* returns.
C19_OneAtATime ==
  /\ Cardinality({c \in Callers : Inside(c)}) <= 1
  /\ \A c \in Callers : Inside(c) <=> mu = c
  /\ \A c \in Callers : callers[c].at = "locked" => callers[c].seen = a

\* a goroutine is inside a method after another has finished its call, while
\* a third has yet to call
C19_Witness ==
  \E c, d, e \in Callers :
    /\ callers[c].at = "locked"
    /\ callers[d].at = "idle" /\ callers[d].left = 0
    /\ callers[e].at = "idle" /\ callers[e].left > 0

\* C20: a goroutine that has left a method, by return or by panic, does not
\* hold the mutex: when no goroutine is inside a method the mutex is
\* unlocked, and then every goroutine with a call to make can enter.
C20_UnlockOnEveryPath ==
  /\ \A c \in Callers : callers[c].at = "idle" => mu # c
  /\ (\A c \in Callers : ~Inside(c)) => mu = Unlocked
  /\ \A c \in Callers :
       (mu = Unlocked /\ callers[c].at = "idle" /\ callers[c].left > 0)
         => ENABLED SafeEnter(c)

\* a goroutine has taken the mutex after another's call panicked with use
\* after release
C20_Witness ==
  /\ last.kind = "UseAfterRelease"
  /\ \E c \in Callers : callers[c].at = "locked" /\ mu = c

\* the sum of the offsets, and of the buffer lengths, of the first k chunks
RECURSIVE OffsetsUpTo(_)
OffsetsUpTo(k) == IF k = 0 THEN 0 ELSE Elems[k].offset + OffsetsUpTo(k - 1)

RECURSIVE BufsUpTo(_)
BufsUpTo(k) == IF k = 0 THEN 0 ELSE Elems[k].buf + BufsUpTo(k - 1)

\* C24: in every state NumChunks is the length of the chunk sequence,
\* SizeInUse the sum of the chunk offsets and Capacity the sum of the buffer
\* lengths; Utilization is the ratio SizeInUse / Capacity when Capacity > 0
\* and 0 when Capacity = 0.
C24_Metrics ==
  /\ NumChunks(a) = Len(Elems)
  /\ SizeInUse(a) = OffsetsUpTo(Len(Elems))
  /\ Capacity(a) = BufsUpTo(Len(Elems))
  /\ Capacity(a) > 0 =>
       LET u == Utilization(a)
           k == Capacity(a) \div u[2]
       IN  /\ u[2] > 0
           /\ Capacity(a) = k * u[2]
           /\ SizeInUse(a) = k * u[1]
  /\ Capacity(a) = 0 => Utilization(a) = Quotient(0, 1)
  /\ ~Live => Capacity(a) = 0

\* bytes in use in an arena whose chunks are not all of the chunk size
C24_Witness ==
  /\ Live
  /\ NumChunks(a) >= 2
  /\ Capacity(a) # NumChunks(a) * ChunkSize(a)
  /\ SizeInUse(a) > 0 /\ SizeInUse(a) < Capacity(a)
  /\ \E i \in 1..Len(Elems) : Elems[i].offset % WordSize # 0

\* C25 as stated: EnsureCapacity(n) on a live arena leaves every existing
\* chunk and SizeInUse as they were; it changes nothing when the current
\* chunk has n bytes left behind its aligned offset, and otherwise appends
\* exactly one chunk of max(chunkSize, n) bytes with offset 0.
C25_Original ==
  [][(last'.op = "EnsureCapacity" /\ last'.was = "live") =>
        LET k == Len(a.chunks.elems)
            c == Deref(a)
            room == c.buf - alignPtr(c.offset)
        IN  /\ last'.kind = "ok"
            /\ SubSeq(a'.chunks.elems, 1, k) = a.chunks.elems
            /\ SizeInUse(a') = SizeInUse(a)
            /\ IF room >= last'.n
               THEN a' = a
               ELSE /\ Len(a'.chunks.elems) = k + 1
                    /\ a'.chunks.elems[k + 1].buf = MaxOf(ChunkSize(a), last'.n)
                    /\ a'.chunks.elems[k + 1].offset = 0]_vars

\* C26 as stated: the AllocBytes(n) that follows an EnsureCapacity(n), n > 0,
\* on a live arena is carved without growth.
C26_Original ==
  [][(last.op = "EnsureCapacity" /\ last.kind = "ok" /\ last.n > 0
        /\ last'.op = "AllocBytes" /\ last'.n = last.n) =>
        /\ last'.kind = "region"
        /\ NumChunks(a') = NumChunks(a)
        /\ Capacity(a') = Capacity(a)]_vars

\* C27 as stated: every operation other than Release fails on a released
\* arena, the allocations with n <= 0 included.
C27_Original ==
  (last.was = "released" /\ last.op # "Release") => Panicked(last)

\* C28 as stated: an operation that fails leaves the chunk list, every
\* offset and the current chunk as they were before the call.
C28_Original ==
  Panicked(last) => last.kept

\* C30: the AllocBytes(n) that follows a Reset of a live arena, with
\* 0 < n <= the length of the first chunk, returns the bytes [0, n) of the
\* first chunk, which is the current chunk, and appends no chunk.
C30_ResetFirstChunk ==
  [][(last.op = "Reset" /\ last.kind = "ok" /\ last'.op = "AllocBytes"
        /\ last'.n > 0 /\ last'.n <= a.chunks.elems[1].buf) =>
        /\ a.currentChunk = [to |-> "chunks", idx |-> 1]
        /\ last'.kind = "region"
        /\ last'.chunk = 1
        /\ last'.start = 0
        /\ last'.len = last'.n
        /\ a'.chunks.elems[1].offset = last'.n
        /\ a'.currentChunk = a.currentChunk
        /\ Len(a'.chunks.elems) = Len(a.chunks.elems)]_vars

\* the first chunk is in use again while a later chunk is the longer one
C30_Witness ==
  /\ last.op = "AllocBytes" /\ last.kind = "region"
  /\ last.chunk = 1 /\ last.start = 0
  /\ regions = <<LastRegion>>
  /\ NumChunks(a) >= 2
  /\ Elems[NumChunks(a)].buf > Elems[1].buf
  /\ Elems[NumChunks(a)].offset = 0

\* C21: the only wait of a SafeArena method is for the mutex: a goroutine
\* that holds it can always run its wrapped call (no method locks the mutex
\* a second time) and its deferred Unlock; under fair scheduling every
\* goroutine finishes every call it makes, by returning or by panicking.
C21_DeadlockFree ==
  /\ [](\A c \in Callers :
          /\ callers[c].at = "locked" => ENABLED SafeCall(c)
          /\ callers[c].at = "deferred" => ENABLED SafeExit(c))
  /\ <>Done

\* a goroutine is inside SafeAllocZeroed while every other one waits
C21_Witness ==
  /\ mu \in Callers
  /\ callers[mu].at = "locked"
  /\ callers[mu].inv[1] = "AllocZeroed"
  /\ \A c \in Callers \ {mu} : callers[c].at = "idle" /\ callers[c].left > 0

\* C22: after every call of a single caller the SafeArena and the unwrapped
\* Arena built with the same chunk size have returned the same result (the
\* same region, the same failure, the same value) and have the same
\* SizeInUse, NumChunks, Capacity and ChunkSize.
C22_SameAsArena ==
  /\ last.op # "NewArena" =>
       /\ last.kind = plain.kind
       /\ last.chunk = plain.chunk
       /\ last.start = plain.start
       /\ last.len = plain.len
       /\ last.val = plain.val
       /\ last.kept = plain.kept
  /\ SizeInUse(a) = SizeInUse(plain.a)
  /\ NumChunks(a) = NumChunks(plain.a)
  /\ Capacity(a) = Capacity(plain.a)
  /\ ChunkSize(a) = ChunkSize(plain.a)
  /\ Live <=> ~IsNilSlice(plain.a.chunks)

\* the third call of the caller is an allocation that grows both arenas
C22_Witness ==
  /\ callers[1].left = 0
  /\ last.op \in AllocOps /\ last.kind = "region" /\ plain.kind = "region"
  /\ ~last.kept /\ last.start = 0
  /\ NumChunks(plain.a) = 3
  /\ ChunkSize(plain.a) = 16

\* C23: the five fields of an ArenaMetrics are those of one state of the
\* arena, the state the Metrics call ran in: each equals what its accessor
\* returns in that state, also while other goroutines allocate, grow and
\* reset the SafeArena.
C23_MetricsSnapshot ==
  last.op = "Metrics" =>
    /\ last.val = Metrics(a)
    /\ last.val.SizeInUse = SizeInUse(a)
    /\ last.val.Capacity = Capacity(a)
    /\ last.val.NumChunks = NumChunks(a)
    /\ last.val.ChunkSize = ChunkSize(a)
    /\ last.val.Utilization = Utilization(a)

\* a snapshot taken after another goroutine has grown the arena, with a
\* third goroutine still to call
C23_Witness ==
  /\ last.op = "Metrics"
  /\ last.val.NumChunks = 2
  /\ last.val.SizeInUse > 0
  /\ \E c \in Callers : callers[c].left > 0

\* C29: SizeInUse, Capacity, NumChunks, ChunkSize, Utilization, Metrics and
\* PtrAndKeepAlive return without a panic and leave the arena as it was,
\* live or released, on the SafeArena and on the unwrapped Arena, and
\* PtrAndKeepAlive returns the reference it was given.
C29_ReadOnly ==
  last.op \in ReadOnly =>
    /\ last.kind = "ok" /\ plain.kind = "ok"
    /\ last.kept /\ plain.kept
    /\ last.op = "PtrAndKeepAlive" =>
         last.val = [ref |-> last.n] /\ plain.val = [ref |-> last.n]

\* PtrAndKeepAlive on an arena that holds a region
C29_Witness ==
  /\ last.op = "PtrAndKeepAlive"
  /\ last.val = [ref |-> 1]
  /\ last.was = "live"
  /\ Len(regions) = 1
  /\ SizeInUse(a) > 0

\* C32 as stated: EnsureCapacity(n) with n <= 0 on a live arena appends no
\* chunk and changes no offset.
C32_Original ==
  (last.op = "EnsureCapacity" /\ last.was = "live" /\ last.n <= 0) =>
    last.kind = "ok" /\ last.kept

\* C35: while the arena is live no call removes, reorders or resizes a
\* chunk, so NumChunks and Capacity do not decrease, and only Release ends
\* the arena's life; a call other than Reset decreases no chunk's offset.
C35_AppendOnly ==
  [][/\ (Live /\ ~Live') => last'.op = "Release"
     /\ (Live /\ Live') =>
          /\ Len(a'.chunks.elems) >= Len(a.chunks.elems)
          /\ \A i \in 1..Len(a.chunks.elems) :
               /\ a'.chunks.elems[i].buf = a.chunks.elems[i].buf
               /\ last'.op # "Reset" =>
                    a'.chunks.elems[i].offset >= a.chunks.elems[i].offset
          /\ NumChunks(a') >= NumChunks(a)
          /\ Capacity(a') >= Capacity(a)]_vars

\* a Reset of an arena of three chunks of two lengths, all of them kept
C35_Witness ==
  /\ last.op = "Reset" /\ last.kind = "ok" /\ ~last.kept
  /\ NumChunks(a) = 3
  /\ Elems[2].buf # Elems[1].buf
  /\ SizeInUse(a) = 0

\* C36: in every state 0 <= SizeInUse <= Capacity, chunk by chunk, and
\* Utilization lies in [0, 1]; while a region handed out since the last
\* Reset or Release is outstanding, SizeInUse and Utilization are above 0.
C36_Utilization ==
  /\ \A i \in 1..Len(Elems) : Elems[i].offset >= 0 /\ Elems[i].offset <= Elems[i].buf
  /\ SizeInUse(a) >= 0
  /\ SizeInUse(a) <= Capacity(a)
  /\ Utilization(a)[2] > 0
  /\ Utilization(a)[1] >= 0
  /\ Utilization(a)[1] <= Utilization(a)[2]
  /\ regions # <<>> => SizeInUse(a) > 0 /\ Utilization(a)[1] > 0

\* a chunk filled to its last byte next to one in use
C36_Witness ==
  /\ Len(regions) = 2
  /\ NumChunks(a) >= 2
  /\ \E i \in 1..Len(Elems) : Elems[i].offset = Elems[i].buf
  /\ Utilization(a)[1] > 0
  /\ Utilization(a)[1] < Utilization(a)[2]

\* C37 as stated: on a live arena Alloc and AllocUninitialized do not fail,
\* whatever the size of T, and AllocSlice of n > 0 elements of size 0 does
\* not fail either.
C37_Original ==
  /\ (last.op \in {"Alloc", "AllocUninitialized"} /\ last.was = "live") =>
       ~Panicked(last)
  /\ (last.op = "AllocSlice" /\ last.was = "live" /\ last.n > 0 /\ last.elem = 0) =>
       ~Panicked(last)

\* C38 as stated: AllocSlice and AllocSliceZeroed of n > 0 elements whose
\* byte count overflows the machine integer hand out no region and leave
\* the arena as it was.
C38_Original ==
  (/\ last.op \in {"AllocSlice", "AllocSliceZeroed"}
   /\ last.was = "live"
   /\ last.n > 0
   /\ last.elem * last.n >= Modulus \div 2) =>
    /\ last.kind # "region"
    /\ last.kept

\* C40: a.currentChunk points at an element of a.chunks while the arena is
\* live, never into an array that append has left behind, and is nil exactly
\* when the arena is released; the offset an allocation advances is that of
\* the chunk the region lies in.
C40_CurrentChunk ==
  /\ Live => PtrIsLive(a)
  /\ Live => a.stale = NoChunk
  /\ ~Live <=> a.currentChunk = NilPtr
  /\ (last.op \in AllocOps /\ last.kind = "region") =>
       /\ a.currentChunk.idx = last.chunk
       /\ Elems[last.chunk].offset = last.start + last.len

\* EnsureCapacity has appended the third chunk and made it current
C40_Witness ==
  /\ last.op = "EnsureCapacity" /\ last.kind = "ok" /\ ~last.kept
  /\ NumChunks(a) = 3
  /\ a.currentChunk = [to |-> "chunks", idx |-> 3]
  /\ SizeInUse(a) > 0

\* C33: AllocBytes(n), n > 0, on a live arena appends a chunk if and only
\* if the aligned offset of the current chunk plus n exceeds the length of
\* its buffer; a request that fits, an exact fit included, is carved from
\* the current chunk at the aligned offset, and on a chunk that is full
\* every request appends a chunk.
C33_GrowsIffNoFit ==
  [][(last'.op = "AllocBytes" /\ last'.n > 0 /\ Live) =>
        LET c == Deref(a)
            off == alignPtr(c.offset)
            n == last'.n
            grows == NumChunks(a') > NumChunks(a)
        IN  /\ grows <=> off + n > c.buf
            /\ grows => NumChunks(a') = NumChunks(a) + 1 /\ last'.chunk = NumChunks(a')
            /\ ~grows =>
                 /\ a'.chunks.elems = [a.chunks.elems EXCEPT
                                         ![a.currentChunk.idx].offset = off + n]
                 /\ last'.chunk = a.currentChunk.idx
                 /\ last'.start = off
            /\ off + n = c.buf => ~grows /\ Deref(a').offset = Deref(a').buf
            /\ c.offset = c.buf => grows]_vars

\* a chunk of the arena's chunk size filled by one request, then a request
\* that had to append
C33_Witness ==
  /\ Len(regions) = 2
  /\ regions[1] = [chunk |-> 1, start |-> 0, len |-> ChunkSize(a)]
  /\ regions[2].chunk = 2
  /\ NumChunks(a) = 2
  /\ Elems[1].offset = Elems[1].buf

\* C34: an AllocBytes(n), n > 0, that appends no chunk increases SizeInUse
\* by n plus the padding p in front of the region, 0 <= p <= WordSize - 1,
\* and one that appends a chunk increases it by n; while the arena has one
\* chunk, SizeInUse is the end offset of the last region.
C34_SizeInUseStep ==
  /\ [][(last'.op = "AllocBytes" /\ last'.n > 0 /\ Live) =>
          LET c == Deref(a)
              p == alignPtr(c.offset) - c.offset
          IN  /\ p >= 0 /\ p <= WordSize - 1
              /\ (p + c.offset) % WordSize = 0
              /\ IF NumChunks(a') = NumChunks(a)
                 THEN SizeInUse(a') = SizeInUse(a) + last'.n + p
                 ELSE SizeInUse(a') = SizeInUse(a) + last'.n]_vars
  /\ []((NumChunks(a) = 1 /\ regions # <<>>) =>
          SizeInUse(a) = regions[Len(regions)].start + regions[Len(regions)].len)

\* two regions of one chunk with padding between them
C34_Witness ==
  /\ NumChunks(a) = 1
  /\ Len(regions) = 2
  /\ regions[2].start > regions[1].start + regions[1].len
  /\ SizeInUse(a) = regions[2].start + regions[2].len
  /\ SizeInUse(a) > regions[1].len + regions[2].len

\* C39: in every interleaving of the goroutines the calls on the SafeArena
\* have returned what the same calls, made one after the other in the order
\* in which they held the mutex, return on an unwrapped Arena, and have left
\* the same arena; every offset is within its buffer and the regions handed
\* out since the last Reset are pairwise disjoint.
C39_Linearizable ==
  /\ last.op # "NewArena" =>
       /\ last.kind = plain.kind
       /\ LastRegion = [chunk |-> plain.chunk, start |-> plain.start, len |-> plain.len]
       /\ last.val = plain.val
  /\ a = plain.a
  /\ \A i \in 1..Len(Elems) : Elems[i].offset <= Elems[i].buf
  /\ \A i, j \in 1..Len(regions) :
       (i < j /\ regions[i].chunk = regions[j].chunk) =>
          \/ regions[i].start + regions[i].len <= regions[j].start
          \/ regions[j].start + regions[j].len <= regions[i].start

\* every goroutine has made its call, each of them an allocation, and the
\* arena has grown on the way
C39_Witness ==
  /\ Done
  /\ Len(regions) = NumCallers
  /\ NumChunks(a) = 2
  /\ \E i, j \in 1..Len(regions) : i < j /\ regions[i].chunk = regions[j].chunk

\* C31 as stated: when a batch of allocations is run again after Reset,
\* NumChunks and Capacity at the end of the run are what they were at the
\* end of the first run.
C31_Original ==
  (batch.run > 1 /\ batch.at = Len(batch.calls)) =>
    /\ NumChunks(a) = batch.chunks
    /\ Capacity(a) = batch.capacity

====
